---- MODULE Spec2Model ----
(***************************************************************************)
(* A model of the NetKet variational Monte Carlo core:                     *)
(*   - Hypercube            (lattice points, adjacency, symmetry table)    *)
(*   - Spin                 (Hilbert space, RandomVals, UpdateConf)        *)
(*   - RbmSpinSymm          (Init, parameters, LogVal, look-up table)      *)
(*   - MetropolisLocal      (Reset, Sweep, SetVisible, Acceptance)         *)
(*   - Sr                   (the learning loop run by W MPI workers)       *)
(*                                                                         *)
(* C++ containers are indexed from 0; the model keeps that indexing by     *)
(* representing vectors as functions over 0..n-1.  Real quantities are     *)
(* kept as scaled integers: S4_ is 4*S_ and totalS4_ is 4*totalS_.         *)
(***************************************************************************)
EXTENDS Integers, Sequences, FiniteSets, TLC

VARIABLES
  \* ---- Hypercube
  L_, ndim_, pbc_, sites_, coord2sites_, adjlist_, nsites_,
  coord,        \* local of GenerateLatticePoints
  gi,           \* loop index of GenerateAdjacencyList
  permtable,    \* local / result of SymmetryTable
  gpc,          \* position of the Hypercube's life cycle
  \* ---- Spin
  S4_, totalS4_, constraintSz_, local_, nstates_, nspins_,
  state,        \* the VectorXd handed to RandomVals
  hpc,          \* position of the Spin's life cycle
  \* ---- RbmSpinSymm
  permtable_, alpha_, usea_, useb_, asymm_, bsymm_, Wsymm_, a_, b_, W_,
  DerMatSymm_,
  mpc,          \* position of the machine's life cycle
  \* ---- MetropolisLocal
  v_, accept_, moves_, lt_,
  swi,          \* local of Sweep: the loop index i
  spc,          \* position of the sampler
  \* ---- Sr: the input shared by the workers
  totalnodes_, withpars, Method, DiagShift, UseIterative, RescaleShift, niter,
  \* ---- Sr: one entry per worker
  rpc,          \* position of the worker
  wait,         \* the worker is inside a collective
  coll,         \* the collectives the worker has entered
  sbuf, bbuf,   \* the worker's buffers in SumOnNodes and in SendToAll
  ri,           \* local of Run: the loop index i
  rgen_, dosr_, use_iterative_, sr_rescale_shift_, sr_diag_shift_, Iter0_,
  vsamp_, elocmean_, Okmean_, grad_,
  srb, srS,     \* locals of UpdateParameters: b and S
  upars,        \* local of UpdateParameters: pars
  theta,        \* the parameters of the worker's machine psi_
  \* ---- the log file
  filelog_

graphVars == <<L_, ndim_, pbc_, sites_, coord2sites_, adjlist_, nsites_,
               coord, gi, permtable, gpc>>
spinVars  == <<S4_, totalS4_, constraintSz_, local_, nstates_, nspins_,
               state, hpc>>
rbmVars   == <<permtable_, alpha_, usea_, useb_, asymm_, bsymm_, Wsymm_,
               a_, b_, W_, DerMatSymm_, mpc>>
samplerVars == <<v_, accept_, moves_, lt_, swi, spc>>
srConf == <<totalnodes_, withpars, Method, DiagShift, UseIterative,
           RescaleShift, niter>>
srVars == <<srConf, rpc, wait, coll, sbuf, bbuf, ri, rgen_, dosr_,
            use_iterative_, sr_rescale_shift_, sr_diag_shift_, Iter0_,
            vsamp_, elocmean_,
            Okmean_, grad_, srb, srS, upars, theta, filelog_>>
vars == <<graphVars, spinVars, rbmVars, samplerVars, srVars>>

-----------------------------------------------------------------------------
(* Bounds of the model *)

MaxL == 3
MaxDim == 3
MaxSpins == 3
MaxTwoS == 2
MaxTotalSz == 4
MaxChain == 2
MaxSzRange == 4
MaxMoves == 2
MaxWorkers == 2
MaxIter == 2
MaxRbmPar == 7

-----------------------------------------------------------------------------
(* Generic helpers *)

\* the empty vector / the empty map
Empty == [x \in {} |-> 0]

\* vector of length n with constant entries
Const0(n, x) == [k \in 0..(n-1) |-> x]

\* std::vector::push_back on a 0-based vector of current size n
PushBack(vec, n, x) == [k \in 0..n |-> IF k = n THEN x ELSE vec[k]]

\* std::map::operator[] assignment
MapPut(map, key, val) ==
  [k \in (DOMAIN map) \cup {key} |-> IF k = key THEN val ELSE map[k]]

\* std::map::at throws std::out_of_range on a missing key; NoSite stands for
\* the exception leaving the caller
NoSite == -1

MapAt(map, key) == IF key \in DOMAIN map THEN map[key] ELSE NoSite

RECURSIVE Pow(_, _)
\* b to the power e
Pow(b, e) == IF e = 0 THEN 1 ELSE b * Pow(b, e - 1)

-----------------------------------------------------------------------------
(* Hypercube *)

\* netket::next_variation(first, last, max): the next tuple over 0..max in
\* odometer order (last coordinate fastest); false once all are at max.
next_variation(c, n, max) ==
  LET free == {j \in 0..(n-1) : c[j] < max}
  IN  IF free = {}
      THEN [ok |-> FALSE, coord |-> c]
      ELSE LET j == CHOOSE x \in free : \A y \in free : y <= x
           IN  [ok |-> TRUE,
                coord |-> [k \in 0..(n-1) |->
                             IF k < j THEN c[k]
                             ELSE IF k = j THEN c[j] + 1 ELSE 0]]

\* the body of the do-while loop of GenerateLatticePoints and its test
LatticeStep(g) ==
  LET nv == next_variation(g.coord, ndim_, L_ - 1)
  IN  [sites |-> PushBack(g.sites, g.n, g.coord),
       c2s   |-> MapPut(g.c2s, g.coord, g.n),
       n     |-> g.n + 1,
       coord |-> nv.coord,
       more  |-> nv.ok]

\* one iteration of the do-while loop of GenerateLatticePoints
GenerateLatticePoints ==
  /\ gpc = "GenerateLatticePoints"
  /\ LET g == LatticeStep([sites |-> sites_, c2s |-> coord2sites_,
                           n |-> nsites_, coord |-> coord])
     IN  /\ sites_' = g.sites
         /\ coord2sites_' = g.c2s
         /\ nsites_' = g.n
         /\ coord' = g.coord
         /\ IF g.more
            THEN UNCHANGED <<gpc, adjlist_>>
            ELSE /\ gpc' = "GenerateAdjacencyList"
                 \* adjlist_.resize(nsites_)
                 /\ adjlist_' = Const0(g.n, <<>>)
  /\ UNCHANGED <<L_, ndim_, pbc_, gi, permtable>>
  /\ UNCHANGED <<spinVars, rbmVars, samplerVars, srVars>>

\* AdjLink without the push_back on the neighbour's list
AdjLink_OneWay(adj, i, d) ==
  LET up    == IF pbc_ THEN (sites_[i][d] + 1) % L_ ELSE sites_[i][d] + 1
      neigh == [sites_[i] EXCEPT ![d] = up]
      ns    == MapAt(coord2sites_, neigh)
  IN  IF pbc_ \/ (sites_[i][d] + 1) < L_
      THEN [adj EXCEPT ![i] = Append(@, ns)]
      ELSE adj

\* the body of the d-loop of GenerateAdjacencyList for site i, dimension d
AdjLink(adj, i, d) ==
  LET up    == IF pbc_ THEN (sites_[i][d] + 1) % L_ ELSE sites_[i][d] + 1
      neigh == [sites_[i] EXCEPT ![d] = up]
      ns    == MapAt(coord2sites_, neigh)
      adj1  == [adj EXCEPT ![i] = Append(@, ns)]
  IN  IF pbc_ \/ (sites_[i][d] + 1) < L_
      THEN [adj1 EXCEPT ![ns] = Append(@, i)]
      ELSE adj

RECURSIVE AdjSite(_, _, _)
\* the d-loop of GenerateAdjacencyList for site i, from dimension d on
AdjSite(adj, i, d) ==
  IF d >= ndim_ THEN adj ELSE AdjSite(AdjLink(adj, i, d), i, d + 1)

\* one iteration of the i-loop of GenerateAdjacencyList
GenerateAdjacencyList ==
  /\ gpc = "GenerateAdjacencyList"
  /\ IF gi < nsites_
     THEN /\ adjlist_' = AdjSite(adjlist_, gi, 0)
          /\ gi' = gi + 1
          /\ gpc' = gpc
     ELSE /\ gpc' = "ready"
          /\ UNCHANGED <<adjlist_, gi>>
  /\ UNCHANGED <<L_, ndim_, pbc_, sites_, coord2sites_, nsites_, coord,
                 permtable>>
  /\ UNCHANGED <<spinVars, rbmVars, samplerVars, srVars>>

\* Transl without the reduction modulo L_
Transl_NoWrap(i, p) == [d \in 0..(ndim_ - 1) |-> sites_[i][d] + sites_[p][d]]

\* ts of SymmetryTable: the coordinates of site p translated by site i
Transl(i, p) == [d \in 0..(ndim_ - 1) |-> (sites_[i][d] + sites_[p][d]) % L_]

\* the table SymmetryTable builds (permtable[i][p] = coord2sites_.at(ts))
SymmetryRows ==
  [i \in 0..(nsites_ - 1) |->
     [p \in 0..(nsites_ - 1) |-> MapAt(coord2sites_, Transl(i, p))]]

\* Hypercube::SymmetryTable
SymmetryTable ==
  /\ gpc = "ready"
  /\ IF ~pbc_
     THEN /\ gpc' = "aborted"
          /\ UNCHANGED permtable
     ELSE IF \E i \in 0..(nsites_ - 1) : \E p \in 0..(nsites_ - 1) :
               SymmetryRows[i][p] = NoSite
     THEN \* coord2sites_.at threw: the program terminates
          /\ gpc' = "aborted"
          /\ UNCHANGED permtable
     ELSE /\ gpc' = "returned"
          /\ permtable' = SymmetryRows
  /\ UNCHANGED <<L_, ndim_, pbc_, sites_, coord2sites_, adjlist_, nsites_,
                 coord, gi>>
  /\ UNCHANGED <<spinVars, rbmVars, samplerVars, srVars>>

\* Hypercube::IsBipartite
IsBipartite == TRUE

-----------------------------------------------------------------------------
(* Spin *)

\* 2*S_
S2 == S4_ \div 2

\* the C++ conversion int(x) of a double x = a/b: truncation towards zero
TruncDiv(a, b) == IF a >= 0 THEN a \div b ELSE -((-a) \div b)

\* Spin::Init after the members are assigned (lines 82-100), then SetConstraint
SpinInit ==
  /\ hpc = "Init"
  /\ IF S4_ <= 0 \/ S4_ % 2 # 0
     THEN \* "Invalid spin value" / "not integer or half integer"
          /\ hpc' = "aborted"
          /\ UNCHANGED <<nstates_, local_>>
     ELSE /\ nstates_' = S2 + 1
          /\ local_' = [i \in 0..S2 |-> -S2 + 2 * i]
          /\ hpc' = "ready"
  /\ UNCHANGED <<S4_, totalS4_, constraintSz_, nspins_, state>>
  /\ UNCHANGED <<graphVars, rbmVars, samplerVars, srVars>>

\* number of entries of s equal to x
CountOf(s, x) == Cardinality({i \in DOMAIN s : s[i] = x})

\* unconstrained branch: state(i) = 2.*(distribution(rgen) - S_)
RandomUnconstrained ==
  [0..(nspins_ - 1) -> {2 * k - S2 : k \in 0..(nstates_ - 1)}]

\* the S_ == 0.5 branch
nup == nspins_ \div 2 + TruncDiv(totalS4_, 4)

ndown == nspins_ - nup

\* the test of line 142 that guards the spin-1/2 branch
CannotFix == (nup - ndown) # TruncDiv(totalS4_, 2)

\* vect after the two fill loops and std::shuffle, nup within 0..nspins_
ShuffledHalf ==
  {s \in [0..(nspins_ - 1) -> {-1, 1}] : CountOf(s, 1) = nup}

\* the loop bound S_*nspins_+totalS_ of the higher-spin branch, times 4
LoopBound4 == 2 * S2 * nspins_ + totalS4_

\* sites.erase(sites.begin() + s), sites a sequence, s counted from 0
Erase(sites, s) ==
  [k \in 1..(Len(sites) - 1) |-> IF k <= s THEN sites[k] ELSE sites[k + 1]]

\* the loop body without the removal of a site that has reached 2S
Increment_NoErase(c, s) ==
  LET site == c.sites[s + 1]
  IN  [st |-> [c.st EXCEPT ![site] = @ + 2], sites |-> c.sites, ss |-> c.ss]

\* one iteration of the loop of lines 171-179 from configuration c, drawing s
Increment(c, s) ==
  LET site == c.sites[s + 1]
      st   == [c.st EXCEPT ![site] = @ + 2]
  IN  IF st[site] > S2 - 1
      THEN [st |-> st, sites |-> Erase(c.sites, s), ss |-> c.ss - 1]
      ELSE [st |-> st, sites |-> c.sites, ss |-> c.ss]

RECURSIVE HigherSpin(_, _)
\* the loop of lines 171-179 from iteration i on, over every draw of rgen.
\* ret: the states the loop can end in; und: the states in which the loop draws
\* from uniform_int_distribution(0,-1) and indexes the empty vector sites
HigherSpin(i, cfgs) ==
  IF ~(4 * i < LoopBound4) \/ cfgs = {}
  THEN [ret |-> {c.st : c \in cfgs}, und |-> {}]
  ELSE LET live == {c \in cfgs : c.ss > 0}
           rest == HigherSpin(i + 1,
                     UNION {{Increment(c, s) : s \in 0..(c.ss - 1)} : c \in live})
       IN  [ret |-> rest.ret,
            und |-> rest.und \cup {c.st : c \in cfgs \ live}]

\* what the run can be left with once RandomVals has written outside vect
\* (nup > nspins_: the first fill loop; nup < 0: the second one): the process
\* dies of the corrupted heap, or goes on with the part of vect inside bounds
OutOfBoundsHalf ==
  {[st |-> "crashed", v |-> state],
   [st |-> "undefined", v |-> Const0(nspins_, IF nup > nspins_ THEN 1 ELSE -1)]}

\* what the run can be left with once the higher-spin loop has drawn from the
\* empty list in state u: the process dies of the wild index, or the stale
\* storage of sites names a site j, which is incremented once more
EmptyDraw(u) ==
  {[st |-> "crashed", v |-> state]}
    \cup {[st |-> "undefined", v |-> [u EXCEPT ![j] = @ + 2]] :
            j \in 0..(nspins_ - 1)}

\* every result of Spin::RandomVals(state, rgen), over the draws of rgen
RandomValsOutcomes ==
  IF ~constraintSz_
  THEN {[st |-> "returned", v |-> s] : s \in RandomUnconstrained}
  ELSE IF S4_ = 2
  THEN IF CannotFix
       THEN {[st |-> "aborted", v |-> state]}
       ELSE IF nup > nspins_ \/ nup < 0
       THEN OutOfBoundsHalf
       ELSE {[st |-> "returned", v |-> s] : s \in ShuffledHalf}
  ELSE LET r == HigherSpin(0, {[st    |-> Const0(nspins_, -S2),
                                sites |-> [k \in 1..nspins_ |-> k - 1],
                                ss    |-> nspins_]})
       IN  {[st |-> "returned", v |-> s] : s \in r.ret}
             \cup UNION {EmptyDraw(u) : u \in r.und}

\* Spin::RandomVals
RandomVals ==
  /\ hpc \in {"ready", "returned"}
  /\ \E o \in RandomValsOutcomes :
       /\ state' = o.v
       /\ hpc' = o.st
  /\ UNCHANGED <<S4_, totalS4_, constraintSz_, local_, nstates_, nspins_>>
  /\ UNCHANGED <<graphVars, rbmVars, samplerVars, srVars>>

\* Spin::UpdateConf
UpdateConf(v, sf, nc) == [v EXCEPT ![sf] = nc]

-----------------------------------------------------------------------------
(* RbmSpinSymm *)

permsize_ == Cardinality(DOMAIN permtable_)

\* number of visible units of the machine (graph.Nsites())
Nvisible == nsites_

nh_ == alpha_ * permsize_

npar_ == Nvisible * alpha_ + (IF usea_ THEN 1 ELSE 0)
                           + (IF useb_ THEN alpha_ ELSE 0)

nbarepar_ == Nvisible * nh_ + (IF usea_ THEN Nvisible ELSE 0)
                            + (IF useb_ THEN nh_ ELSE 0)

\* the entries RbmSpinSymm::Init sets to 1 in DerMatSymm_, as pairs
\* <<row, column>>: the loops of lines 156-187 with their counters k and kbare
DerMatSymmOnes ==
  LET k0     == IF usea_ THEN 1 ELSE 0
      kbare0 == IF usea_ THEN Nvisible ELSE 0
      k1     == IF useb_ THEN k0 + alpha_ ELSE k0
      kbare1 == IF useb_ THEN kbare0 + nh_ ELSE kbare0
      ones_a == IF usea_ THEN {<<0, p>> : p \in 0..(Nvisible - 1)} ELSE {}
      ones_b == IF useb_
                THEN {<<(k0 \div permsize_) + k0, kbare0 + p>> :
                        p \in 0..(nh_ - 1)}
                ELSE {}
      ones_W == {<<(j \div permsize_) + alpha_ * permtable_[i][j % permsize_]
                     + k1,
                   kbare1 + i * nh_ + j>> :
                   i \in 0..(Nvisible - 1), j \in 0..(nh_ - 1)}
  IN  ones_a \cup ones_b \cup ones_W

\* DerMatSymm_ as RbmSpinSymm::Init leaves it
DerMatSymmOf ==
  [k \in 0..(npar_ - 1) |->
     [kbare \in 0..(nbarepar_ - 1) |->
        IF <<k, kbare>> \in DerMatSymmOnes THEN 1 ELSE 0]]

\* the symmetric parameters RbmSpinSymm::SetParameters reads from pars
SymmOf(pars) ==
  LET k0 == IF usea_ THEN 1 ELSE 0
      k1 == k0 + (IF useb_ THEN alpha_ ELSE 0)
  IN  [asymm |-> IF usea_ THEN pars[0] ELSE 0,
       bsymm |-> [p \in 0..(alpha_ - 1) |->
                    IF useb_ THEN pars[k0 + p] ELSE 0],
       Wsymm |-> [i \in 0..(Nvisible - 1) |->
                    [j \in 0..(alpha_ - 1) |-> pars[k1 + i * alpha_ + j]]]]

\* SetBareParameters taking the channel of hidden unit j as j % alpha_
BareOf_ModAlpha(sy) ==
  [a |-> [i \in 0..(Nvisible - 1) |-> sy.asymm],
   b |-> [j \in 0..(nh_ - 1) |-> sy.bsymm[j % alpha_]],
   W |-> [i \in 0..(Nvisible - 1) |->
            [j \in 0..(nh_ - 1) |->
               sy.Wsymm[permtable_[i][j % permsize_]][j % alpha_]]]]

\* SetBareParameters copying row i of Wsymm_ whatever the group element
BareOf_Unsymmetrised(sy) ==
  [a |-> [i \in 0..(Nvisible - 1) |-> sy.asymm],
   b |-> [j \in 0..(nh_ - 1) |-> sy.bsymm[j \div permsize_]],
   W |-> [i \in 0..(Nvisible - 1) |->
            [j \in 0..(nh_ - 1) |-> sy.Wsymm[i][j \div permsize_]]]]

\* RbmSpinSymm::SetBareParameters: a_, b_ and W_ from the symmetric ones
BareOf(sy) ==
  [a |-> [i \in 0..(Nvisible - 1) |-> sy.asymm],
   b |-> [j \in 0..(nh_ - 1) |-> sy.bsymm[j \div permsize_]],
   W |-> [i \in 0..(Nvisible - 1) |->
            [j \in 0..(nh_ - 1) |->
               sy.Wsymm[permtable_[i][j % permsize_]][j \div permsize_]]]]

RECURSIVE Dot(_, _, _)
\* sum over i < n of W[i][j] * v[i]
Dot(W, v, n) == IF n = 0 THEN 0 ELSE W[n - 1] * v[n - 1] + Dot(W, v, n - 1)

\* W.transpose()*v + b
ThetaOf(W, b, v) ==
  [j \in 0..(nh_ - 1) |->
     Dot([i \in 0..(Nvisible - 1) |-> W[i][j]], v, Nvisible) + b[j]]

\* W_.transpose()*v + b_
Theta(v) == ThetaOf(W_, b_, v)

\* RbmSpinSymm::InitLookup
InitLookup(v, lt) == [VectorSize |-> 1, V0 |-> Theta(v)]

\* RbmSpinSymm::UpdateLookup for a single site
UpdateLookup(v, sf, nc, lt) ==
  [lt EXCEPT !.V0 = [j \in 0..(nh_ - 1) |-> @[j] + W_[sf][j] * (nc - v[sf])]]

\* the values a parameter takes in the model
ParVals == {0, 1}

\* the parameter vectors of the model
ParVectors == [0..(npar_ - 1) -> ParVals]

\* RbmSpinSymm::Init(graph), called by the constructor and by from_json.
\* resize leaves the parameters it does not set to zero without a value: no
\* operation reads them before SetParameters or from_json writes them, and
\* the model keeps zeros there.
RbmInit ==
  /\ mpc = "Init"
  /\ UNCHANGED <<alpha_, usea_, useb_>>
  /\ UNCHANGED <<graphVars, spinVars, samplerVars, srVars>>
  /\ IF ~pbc_
     THEN \* graph.SymmetryTable() aborts
          /\ mpc' = "aborted"
          /\ UNCHANGED <<permtable_, DerMatSymm_, asymm_, bsymm_, Wsymm_,
                         a_, b_, W_>>
     ELSE /\ permtable_' = SymmetryRows
          /\ mpc' = "ready"
          /\ DerMatSymm_' = DerMatSymmOf'
          /\ asymm_' = 0
          /\ bsymm_' = Const0(alpha_, 0)
          /\ Wsymm_' = Const0(Nvisible, Const0(alpha_, 0))
          /\ a_' = Const0(Nvisible, 0)
          /\ b_' = Const0(alpha_ * nsites_, 0)
          /\ W_' = Const0(Nvisible, Const0(alpha_ * nsites_, 0))

\* RbmSpinSymm::SetParameters(pars), SetBareParameters included
RbmSetParameters ==
  /\ mpc \in {"ready", "set"}
  /\ \E pars \in ParVectors :
       LET sy == SymmOf(pars)
           ba == BareOf(sy)
       IN  /\ asymm_' = sy.asymm
           /\ bsymm_' = sy.bsymm
           /\ Wsymm_' = sy.Wsymm
           /\ a_' = ba.a
           /\ b_' = ba.b
           /\ W_' = ba.W
  /\ mpc' = "set"
  /\ UNCHANGED <<permtable_, alpha_, usea_, useb_, DerMatSymm_>>
  /\ UNCHANGED <<graphVars, spinVars, samplerVars, srVars>>

\* RbmSpinSymm::from_json after its call of Init: asymm, bsymm and Wsymm are
\* taken from the input whatever usea_ and useb_ are (a missing asymm or bsymm
\* is 0, a missing Wsymm leaves the values resize gave), then SetBareParameters
from_json ==
  /\ mpc = "ready"
  /\ \E asymm \in ParVals :
     \E bsymm \in [0..(alpha_ - 1) -> ParVals] :
     \E Wsymm \in [0..(Nvisible - 1) -> [0..(alpha_ - 1) -> ParVals]] :
       LET sy == [asymm |-> asymm, bsymm |-> bsymm, Wsymm |-> Wsymm]
           ba == BareOf(sy)
       IN  /\ asymm_' = sy.asymm
           /\ bsymm_' = sy.bsymm
           /\ Wsymm_' = sy.Wsymm
           /\ a_' = ba.a
           /\ b_' = ba.b
           /\ W_' = ba.W
  /\ mpc' = "set"
  /\ UNCHANGED <<permtable_, alpha_, usea_, useb_, DerMatSymm_>>
  /\ UNCHANGED <<graphVars, spinVars, samplerVars, srVars>>

\* v.dot(a_)
VisibleTerm(v) == Dot(a_, v, Nvisible)

\* the number of hidden units whose pre-activation has magnitude x
CountAbs(th, x) ==
  Cardinality({j \in 0..(nh_ - 1) : th[j] = x \/ th[j] = -x})

\* RbmSpinSymm::LogVal(v): v.dot(a_) + lnthetas_.sum(), where lnthetas_ holds
\* lncosh of W_.transpose()*v+b_.  lncosh is even and is no integer operation:
\* the sum is kept as the number of terms lncosh(x) for each magnitude x
LogVal(v) ==
  LET th == Theta(v)
  IN  [dot |-> VisibleTerm(v),
       lnthetas |-> [x \in {IF th[j] < 0 THEN -th[j] ELSE th[j] :
                              j \in 0..(nh_ - 1)} |-> CountAbs(th, x)]]

-----------------------------------------------------------------------------
(* MetropolisLocal *)

\* number of visible units of the sampler (hilbert_.Size())
nv_ == nspins_

\* the states newstate can hold when the resampling loop of lines 148-151 ends
Candidates_NoResample(si) == 0..(nstates_ - 1)

Candidates(si) == {k \in 0..(nstates_ - 1) : local_[k] # v_[si]}

\* MetropolisLocal::Reset(initrandom)
ResetWith(initrandom) ==
  /\ spc = "idle"
  /\ IF initrandom
     THEN \E o \in RandomValsOutcomes :
            IF o.st = "returned"
            THEN /\ v_' = o.v
                 /\ spc' = spc
            ELSE /\ v_' = v_
                 /\ spc' = o.st
     ELSE UNCHANGED <<v_, spc>>
  /\ lt_' = IF spc' = "idle" THEN InitLookup(v_', lt_) ELSE lt_
  /\ accept_' = IF spc' = "idle" THEN 0 ELSE accept_
  /\ moves_' = IF spc' = "idle" THEN 0 ELSE moves_
  /\ UNCHANGED swi
  /\ UNCHANGED <<graphVars, spinVars, rbmVars, srVars>>

\* MetropolisLocal::Reset
Reset == \E initrandom \in BOOLEAN : ResetWith(initrandom)

\* MetropolisLocal::Sweep, up to the loop
Sweep ==
  /\ spc = "idle"
  /\ moves_ + nv_ <= MaxMoves
  /\ spc' = "Sweep"
  /\ swi' = 0
  /\ UNCHANGED <<v_, accept_, moves_, lt_>>
  /\ UNCHANGED <<graphVars, spinVars, rbmVars, srVars>>

\* the loop body of Sweep with accept_[0]+=1 outside the acceptance test
Proposal_CountsAll ==
  /\ spc = "Sweep"
  /\ swi < nv_
  /\ \E si \in 0..(nv_ - 1) : \E newstate \in Candidates(si) :
     \E accepted \in BOOLEAN :
       LET tochange == si
           newconf  == local_[newstate]
       IN  /\ accept_' = accept_ + 1
           /\ IF accepted
              THEN /\ lt_' = UpdateLookup(v_, tochange, newconf, lt_)
                   /\ v_' = UpdateConf(v_, tochange, newconf)
              ELSE UNCHANGED <<lt_, v_>>
  /\ moves_' = moves_ + 1
  /\ swi' = swi + 1
  /\ UNCHANGED spc
  /\ UNCHANGED <<graphVars, spinVars, rbmVars, srVars>>

\* one iteration of the loop of Sweep: one proposal.  The test
\* ratio > distu(rgen_) compares a positive number with a draw from [0,1): the
\* model draws its outcome.
Proposal ==
  /\ spc = "Sweep"
  /\ swi < nv_
  /\ \E si \in 0..(nv_ - 1) : \E newstate \in Candidates(si) :
     \E accepted \in BOOLEAN :
       LET tochange == si
           newconf  == local_[newstate]
       IN  IF accepted
           THEN /\ accept_' = accept_ + 1
                /\ lt_' = UpdateLookup(v_, tochange, newconf, lt_)
                /\ v_' = UpdateConf(v_, tochange, newconf)
           ELSE UNCHANGED <<accept_, lt_, v_>>
  /\ moves_' = moves_ + 1
  /\ swi' = swi + 1
  /\ UNCHANGED spc
  /\ UNCHANGED <<graphVars, spinVars, rbmVars, srVars>>

\* the end of the loop of Sweep
SweepReturn ==
  /\ spc = "Sweep"
  /\ ~(swi < nv_)
  /\ spc' = "idle"
  /\ UNCHANGED <<v_, accept_, moves_, lt_, swi>>
  /\ UNCHANGED <<graphVars, spinVars, rbmVars, srVars>>

\* MetropolisLocal::Acceptance: accept_(0)/moves_(0), kept as a fraction
Acceptance == [num |-> accept_, den |-> moves_]

\* MetropolisLocal::SetVisible
SetVisible ==
  /\ spc = "idle"
  /\ v_' \in [0..(nv_ - 1) -> {local_[k] : k \in 0..(nstates_ - 1)}]
  /\ UNCHANGED <<accept_, moves_, lt_, swi, spc>>
  /\ UNCHANGED <<graphVars, spinVars, rbmVars, srVars>>

\* One turn of the learning loop as the sampler sees it: Sr::UpdateParameters
\* calls RbmSpinSymm::SetParameters (line 575), and the next operation on the
\* sampler is the Reset() that opens Sr::Sample (line 378)
SetParameters ==
  /\ spc = "idle"
  /\ \E pars \in ParVectors :
       LET sy == SymmOf(pars)
           ba == BareOf(sy)
       IN  /\ asymm_' = sy.asymm
           /\ bsymm_' = sy.bsymm
           /\ Wsymm_' = sy.Wsymm
           /\ a_' = ba.a
           /\ b_' = ba.b
           /\ W_' = ba.W
           /\ lt_' = [VectorSize |-> 1, V0 |-> ThetaOf(ba.W, ba.b, v_)]
  /\ accept_' = 0
  /\ moves_' = 0
  /\ UNCHANGED <<permtable_, alpha_, usea_, useb_, DerMatSymm_, mpc>>
  /\ UNCHANGED <<v_, swi, spc>>
  /\ UNCHANGED <<graphVars, spinVars, srVars>>

-----------------------------------------------------------------------------
(* Sr: the learning loop, run by totalnodes_ MPI workers                    *)
(*                                                                          *)
(* Every worker runs the same program.  A collective is entered (its name *)
(* is appended to coll[w], the worker's buffer is kept) and left in two    *)
(* steps.  The numerical content of an iteration is kept as integers: a    *)
(* row of vsamp_ is one number, the machine has one parameter, the means   *)
(* are kept multiplied by the number of samples of all workers, and the    *)
(* linear solves are scalar divisions.                                     *)

Workers == 0..(totalnodes_ - 1)

\* what std::random_device returns: one value stands for all of them, a seed
\* reaches nothing but rgen_
SeedVals == {1}

\* the sample matrices a worker can draw: sweepnode rows
SampleVals == {<<0, 0>>, <<0, 1>>}

\* the parameter psi_ holds when the learning starts: one value stands for all
\* of them, the steps of the model do not depend on it
ThetaVals == {1}

Sign(x) == IF x > 0 THEN 1 ELSE IF x < 0 THEN -1 ELSE 0

Goto(w, l) == rpc' = [rpc EXCEPT ![w] = l]

\* worker w enters the collective op with its buffer val.  The buffers a
\* collective can still need are kept: the last two of SumOnNodes, as a
\* worker can enter the next sum while another has yet to leave this one,
\* and the last of SendToAll.
CallCollective(w, op, val) ==
  /\ ~wait[w]
  /\ coll' = [coll EXCEPT ![w] = Append(@, op)]
  /\ wait' = [wait EXCEPT ![w] = TRUE]
  /\ sbuf' = IF op = "SumOnNodes"
             THEN [sbuf EXCEPT ![w] = [prev |-> @.cur, cur |-> val]]
             ELSE sbuf
  /\ bbuf' = IF op = "SendToAll" THEN [bbuf EXCEPT ![w] = val] ELSE bbuf

\* worker w leaves the collective it is in
LeaveCollective(w) ==
  /\ wait' = [wait EXCEPT ![w] = FALSE]
  /\ UNCHANGED <<coll, sbuf, bbuf>>

\* worker u has entered op as its n-th collective
Reached(u, n, op) == Len(coll[u]) >= n /\ coll[u][n] = op

\* MPI_Barrier returns at once
BarrierReturns_NoWait(w) == wait[w]

\* MPI_Barrier(MPI_COMM_WORLD) returns on w when every worker has entered it
BarrierReturns(w) ==
  /\ wait[w]
  /\ \A u \in Workers : Reached(u, Len(coll[w]), "MPI_Barrier")

\* SumOnNodes returns on w when every worker has contributed
SumOnNodesReturns(w) ==
  /\ wait[w]
  /\ \A u \in Workers : Reached(u, Len(coll[w]), "SumOnNodes")

\* the number of SumOnNodes worker w has entered
NSum(w) == Cardinality({k \in 1..Len(coll[w]) : coll[w][k] = "SumOnNodes"})

\* the buffer worker u gave to the SumOnNodes worker w is in
Contribution(u, w) ==
  IF NSum(u) = NSum(w) THEN sbuf[u].cur ELSE sbuf[u].prev

RECURSIVE SumOver(_, _)
SumOver(w, k) ==
  IF k = 0 THEN 0 ELSE Contribution(k - 1, w) + SumOver(w, k - 1)

\* the buffer of w after SumOnNodes: the sum of the workers' buffers
SumOnNodes(w) == SumOver(w, totalnodes_)

\* SendToAll returns on w when worker 0 has sent
SendToAllReturns(w) ==
  /\ wait[w]
  /\ Reached(0, Len(coll[w]), "SendToAll")

\* the buffer of w after SendToAll: the buffer of worker 0
SendToAll(w) == bbuf[0]

\* MetropolisLocal::Seed
Seed ==
  \E w \in Workers :
    /\ rpc[w] = "Seed"
    /\ \/ /\ \E rd \in [Workers -> SeedVals] :
               CallCollective(w, "SendToAll",
                              IF w = 0 THEN rd ELSE [u \in Workers |-> 0])
          /\ UNCHANGED <<rpc, rgen_>>
       \/ /\ SendToAllReturns(w)
          /\ rgen_' = [rgen_ EXCEPT ![w] = SendToAll(w)[w]]
          /\ Goto(w, "SrInit")
          /\ LeaveCollective(w)
    /\ UNCHANGED <<ri, dosr_, use_iterative_, sr_rescale_shift_, sr_diag_shift_, Iter0_,
                   filelog_, vsamp_, elocmean_, Okmean_, grad_, srb, srS,
                   upars, theta>>
    /\ UNCHANGED <<srConf, graphVars, spinVars, rbmVars, samplerVars>>

\* the default value 0.01 of diagshift, the unit of the shifts of the model
DefaultDiagShift == 1

\* FieldOrDefaultVal(pars, field, defval): a field of the input is the set of
\* its value, empty when the field is absent
FieldOrDefaultVal(field, defval) ==
  IF field = {} THEN defval ELSE CHOOSE x \in field : TRUE

\* Sr::setSrParameters
setSrParameters(w, diagshift, rescale_shift, use_iterative) ==
  /\ sr_diag_shift_' = [sr_diag_shift_ EXCEPT ![w] = diagshift]
  /\ sr_rescale_shift_' = [sr_rescale_shift_ EXCEPT ![w] = rescale_shift]
  /\ use_iterative_' = [use_iterative_ EXCEPT ![w] = use_iterative]
  /\ dosr_' = [dosr_ EXCEPT ![w] = TRUE]

\* Sr::Init
SrInit ==
  \E w \in Workers :
    /\ rpc[w] = "SrInit"
    /\ \/ /\ Iter0_' = [Iter0_ EXCEPT ![w] = 0]
          /\ setSrParameters(w, DefaultDiagShift, FALSE, FALSE)
          /\ CallCollective(w, "MPI_Barrier", 0)
          /\ UNCHANGED rpc
       \/ /\ BarrierReturns(w)
          /\ Goto(w, IF withpars THEN "Sr" ELSE "Run")
          /\ LeaveCollective(w)
          /\ UNCHANGED <<Iter0_, sr_rescale_shift_, sr_diag_shift_, use_iterative_, dosr_>>
    /\ UNCHANGED <<ri, rgen_, filelog_, vsamp_, elocmean_, Okmean_, grad_,
                   srb, srS, upars, theta>>
    /\ UNCHANGED <<srConf, graphVars, spinVars, rbmVars, samplerVars>>

\* the test pars["Learning"]["Method"]=="Gd" of the JSON constructor, met by
\* any spelling of the name
IsGd_AnyCase == Method \in {"Gd", "gd"}

\* the test pars["Learning"]["Method"]=="Gd" of the JSON constructor
IsGd == Method = "Gd"

\* Sr::Sr, the JSON constructor after Init() and up to the call of Run
Sr ==
  \E w \in Workers :
    /\ rpc[w] = "Sr"
    /\ IF IsGd
       THEN /\ dosr_' = [dosr_ EXCEPT ![w] = FALSE]
            /\ UNCHANGED <<sr_rescale_shift_, sr_diag_shift_, use_iterative_>>
       ELSE setSrParameters(w, FieldOrDefaultVal(DiagShift, DefaultDiagShift),
                            FieldOrDefaultVal(RescaleShift, FALSE),
                            FieldOrDefaultVal(UseIterative, FALSE))
    /\ Goto(w, "Run")
    /\ UNCHANGED <<wait, coll, sbuf, bbuf, ri, rgen_, Iter0_, filelog_, vsamp_,
                   elocmean_, Okmean_, grad_, srb, srS, upars, theta>>
    /\ UNCHANGED <<srConf, graphVars, spinVars, rbmVars, samplerVars>>

\* the loop of Sr::Run stops too late
LoopTest_Inclusive(w) == ri[w] <= niter

\* the test of the loop of Sr::Run
LoopTest(w) == ri[w] < niter

\* Sr::Run: the head of the loop and the end of the function.  The
\* increment of i is made by the step that leaves PrintOutput.
Run ==
  \E w \in Workers :
    /\ \/ /\ rpc[w] = "Run"
          /\ ri' = [ri EXCEPT ![w] = 0]
          /\ Goto(w, "RunLoop")
          /\ UNCHANGED Iter0_
       \/ /\ rpc[w] = "RunLoop"
          /\ IF LoopTest(w)
             THEN /\ Goto(w, "Sample")
                  /\ UNCHANGED Iter0_
             ELSE /\ Iter0_' = [Iter0_ EXCEPT ![w] = @ + niter]
                  /\ Goto(w, "Done")
          /\ UNCHANGED ri
    /\ UNCHANGED <<wait, coll, sbuf, bbuf, rgen_, dosr_, use_iterative_,
                   sr_rescale_shift_, sr_diag_shift_, filelog_, vsamp_, elocmean_, Okmean_,
                   grad_, srb, srS, upars, theta>>
    /\ UNCHANGED <<srConf, graphVars, spinVars, rbmVars, samplerVars>>

\* Sr::Sample: the sweeps of the worker's own chain fill vsamp_
Sample ==
  \E w \in Workers :
    /\ rpc[w] = "Sample"
    /\ \E s \in SampleVals : vsamp_' = [vsamp_ EXCEPT ![w] = s]
    /\ Goto(w, "G_elocmean")
    /\ UNCHANGED <<wait, coll, sbuf, bbuf, ri, rgen_, dosr_, use_iterative_,
                   sr_rescale_shift_, sr_diag_shift_, Iter0_, filelog_, elocmean_, Okmean_,
                   grad_, srb, srS, upars, theta>>
    /\ UNCHANGED <<srConf, graphVars, spinVars, rbmVars, samplerVars>>

\* Sr::Eloc(v): the local energy of a row
Eloc(v) == 1 - v

\* psi_.DerLog(v): the derivative of the logarithm at a row
DerLog(v) == v

\* vsamp_.rows()
nsamp(w) == Len(vsamp_[w])

RECURSIVE RowSum(_)
\* the sum of the entries of a column q, one entry per row of vsamp_
RowSum(q) == IF q = <<>> THEN 0 ELSE Head(q) + RowSum(Tail(q))

\* elocs_(i) and Ok_.row(i) before they are centred
ElocRow(w, i) == Eloc(vsamp_[w][i])

OkRow(w, i) == DerLog(vsamp_[w][i])

\* elocs_(i) and Ok_.row(i) once centred, times the number of samples of all
\* workers
ElocCentred(w, i) == nsamp(w) * totalnodes_ * ElocRow(w, i) - elocmean_[w]

OkCentred(w, i) == nsamp(w) * totalnodes_ * OkRow(w, i) - Okmean_[w]

OkElocsRow(w, i) == OkCentred(w, i) * ElocCentred(w, i)

OkOkRow(w, i) == OkCentred(w, i) * OkCentred(w, i)

\* Ok_.adjoint()*elocs_ on worker w, for the centred Ok_ and elocs_
OkElocs(w) == RowSum([i \in 1..nsamp(w) |-> OkElocsRow(w, i)])

\* Ok_.adjoint()*Ok_ on worker w, for the centred Ok_
OkOk(w) == RowSum([i \in 1..nsamp(w) |-> OkOkRow(w, i)])

\* Sr::Gradient
Gradient ==
  \E w \in Workers :
    /\ \/ /\ rpc[w] = "G_elocmean"
          /\ \/ /\ CallCollective(w, "SumOnNodes",
                     RowSum([i \in 1..nsamp(w) |-> ElocRow(w, i)]))
                /\ UNCHANGED <<rpc, elocmean_>>
             \/ /\ SumOnNodesReturns(w)
                /\ elocmean_' = [elocmean_ EXCEPT ![w] = SumOnNodes(w)]
                /\ Goto(w, "G_Okmean")
                /\ LeaveCollective(w)
          /\ UNCHANGED <<Okmean_, grad_>>
       \/ /\ rpc[w] = "G_Okmean"
          /\ \/ /\ CallCollective(w, "SumOnNodes",
                     RowSum([i \in 1..nsamp(w) |-> OkRow(w, i)]))
                /\ UNCHANGED <<rpc, Okmean_>>
             \/ /\ SumOnNodesReturns(w)
                /\ Okmean_' = [Okmean_ EXCEPT ![w] = SumOnNodes(w)]
                /\ Goto(w, "G_grad")
                /\ LeaveCollective(w)
          /\ UNCHANGED <<elocmean_, grad_>>
       \/ /\ rpc[w] = "G_grad"
          /\ \/ /\ CallCollective(w, "SumOnNodes", 2 * OkElocs(w))
                /\ UNCHANGED <<rpc, grad_>>
             \/ /\ SumOnNodesReturns(w)
                /\ grad_' = [grad_ EXCEPT ![w] = SumOnNodes(w)]
                /\ Goto(w, "UpdateParameters")
                /\ LeaveCollective(w)
          /\ UNCHANGED <<elocmean_, Okmean_>>
    /\ UNCHANGED <<ri, rgen_, dosr_, use_iterative_, sr_rescale_shift_, sr_diag_shift_,
                   Iter0_, filelog_, vsamp_, srb, srS, upars, theta>>
    /\ UNCHANGED <<srConf, graphVars, spinVars, rbmVars, samplerVars>>

\* qr.solve(b) and it_solver.solve(b): the solution of S*deltaP = b
Solve(S, b) == TruncDiv(b, S)

\* grad_ = deltaP, divided by sqrt(deltaP.dot(S*deltaP)) when
\* sr_rescale_shift_ is set
SrGradient(w, deltaP) == IF sr_rescale_shift_[w] THEN Sign(deltaP) ELSE deltaP

\* the branch on use_iterative_ is taken by the rank of the worker
AfterSumB_ByRank(w) == IF w = 0 THEN "U_SumS" ELSE "U_Iterative"

\* Sr::UpdateParameters, the branch that follows SumOnNodes(b)
AfterSumB(w) == IF ~use_iterative_[w] THEN "U_SumS" ELSE "U_Iterative"

\* opt_.Update(grad_, pars): one step against the gradient
Update(grad, p) == p - grad

\* Sr::UpdateParameters
UpdateParameters ==
  \E w \in Workers :
    /\ \/ /\ rpc[w] = "UpdateParameters"
          /\ upars' = [upars EXCEPT ![w] = theta[w]]
          /\ Goto(w, IF dosr_[w] THEN "U_SumB" ELSE "U_Update")
          /\ UNCHANGED <<wait, coll, sbuf, bbuf, grad_, srb, srS, theta>>
       \/ /\ rpc[w] = "U_SumB"
          /\ \/ /\ CallCollective(w, "SumOnNodes", OkElocs(w))
                /\ UNCHANGED <<rpc, srb>>
             \/ /\ SumOnNodesReturns(w)
                /\ srb' = [srb EXCEPT ![w] = SumOnNodes(w)]
                /\ Goto(w, AfterSumB(w))
                /\ LeaveCollective(w)
          /\ UNCHANGED <<grad_, srS, upars, theta>>
       \/ /\ rpc[w] = "U_SumS"
          /\ \/ /\ CallCollective(w, "SumOnNodes", OkOk(w))
                /\ UNCHANGED <<rpc, srS, grad_>>
             \/ /\ SumOnNodesReturns(w)
                /\ LET S == SumOnNodes(w) + sr_diag_shift_[w]
                   IN  /\ srS' = [srS EXCEPT ![w] = S]
                       /\ grad_' = [grad_ EXCEPT ![w] =
                                      SrGradient(w, Solve(S, srb[w]))]
                /\ Goto(w, "U_Update")
                /\ LeaveCollective(w)
          /\ UNCHANGED <<srb, upars, theta>>
       \/ /\ rpc[w] = "U_Iterative"
          /\ \/ /\ LET S == totalnodes_ * OkOk(w) + sr_diag_shift_[w]
                   IN  grad_' = [grad_ EXCEPT ![w] =
                                   SrGradient(w, Solve(S, srb[w]))]
                /\ CallCollective(w, "MPI_Barrier", 0)
                /\ UNCHANGED rpc
             \/ /\ BarrierReturns(w)
                /\ Goto(w, "U_Update")
                /\ LeaveCollective(w)
                /\ UNCHANGED grad_
          /\ UNCHANGED <<srb, srS, upars, theta>>
       \/ /\ rpc[w] = "U_Update"
          /\ \/ /\ upars' = [upars EXCEPT ![w] = Update(grad_[w], @)]
                /\ CallCollective(w, "SendToAll", upars'[w])
                /\ UNCHANGED <<rpc, theta>>
             \/ /\ SendToAllReturns(w)
                /\ upars' = [upars EXCEPT ![w] = SendToAll(w)]
                /\ theta' = [theta EXCEPT ![w] = SendToAll(w)]
                /\ Goto(w, "U_Barrier")
                /\ LeaveCollective(w)
          /\ UNCHANGED <<grad_, srb, srS>>
       \/ /\ rpc[w] = "U_Barrier"
          /\ \/ /\ CallCollective(w, "MPI_Barrier", 0)
                /\ UNCHANGED rpc
             \/ /\ BarrierReturns(w)
                /\ Goto(w, "PrintOutput")
                /\ LeaveCollective(w)
          /\ UNCHANGED <<grad_, srb, srS, upars, theta>>
    /\ UNCHANGED <<ri, rgen_, dosr_, use_iterative_, sr_rescale_shift_, sr_diag_shift_,
                   Iter0_, filelog_, vsamp_, elocmean_, Okmean_>>
    /\ UNCHANGED <<srConf, graphVars, spinVars, rbmVars, samplerVars>>

\* the names of the observables of the input (obs_)
ObsNames == {"SigmaX"}

\* json(obsmanager_): one entry for each observable added to obsmanager_ by
\* Sr::Init, "Energy" and "EnergyVariance" first
ObsManagerJson == {"Energy", "EnergyVariance"} \cup ObsNames

\* the entries of jiter in PrintOutput; the local Acceptance is not one of them
JiterKeys == ObsManagerJson \cup {"Iteration"}

\* Sr::PrintOutput(i); the step that leaves it makes the i++ of Sr::Run
PrintOutput ==
  \E w \in Workers :
    /\ rpc[w] = "PrintOutput"
    /\ \/ /\ filelog_' = IF w = 0
                         THEN Append(filelog_,
                                     [Iteration |-> ri[w] + Iter0_[w],
                                      mynode   |-> w,
                                      keys     |-> JiterKeys])
                         ELSE filelog_
          /\ CallCollective(w, "MPI_Barrier", 0)
          /\ UNCHANGED <<rpc, ri>>
       \/ /\ BarrierReturns(w)
          /\ ri' = [ri EXCEPT ![w] = @ + 1]
          /\ Goto(w, "RunLoop")
          /\ LeaveCollective(w)
          /\ UNCHANGED filelog_
    /\ UNCHANGED <<rgen_, dosr_, use_iterative_, sr_rescale_shift_, sr_diag_shift_, Iter0_,
                   vsamp_, elocmean_, Okmean_, grad_, srb, srS, upars, theta>>
    /\ UNCHANGED <<srConf, graphVars, spinVars, rbmVars, samplerVars>>

-----------------------------------------------------------------------------
(* Specifications *)

RECURSIVE LatticePoints(_)
\* GenerateLatticePoints: the do-while loop run to its end
LatticePoints(g) ==
  LET h == LatticeStep(g) IN IF h.more THEN LatticePoints(h) ELSE h

RECURSIVE AdjFrom(_, _)
\* GenerateAdjacencyList: the i-loop run to its end
AdjFrom(adj, i) ==
  IF i >= nsites_ THEN adj ELSE AdjFrom(AdjSite(adj, i, 0), i + 1)

\* No machine and no sampler in the run
InitSamplerNone ==
  /\ permtable_ = Empty /\ alpha_ = 1 /\ usea_ = TRUE /\ useb_ = TRUE
  /\ asymm_ = 0 /\ bsymm_ = Empty /\ Wsymm_ = Empty
  /\ a_ = Empty /\ b_ = Empty /\ W_ = Empty
  /\ DerMatSymm_ = Empty /\ mpc = "none"
  /\ v_ = Empty /\ accept_ = 0 /\ moves_ = 0
  /\ lt_ = [VectorSize |-> 0, V0 |-> Empty]
  /\ swi = 0 /\ spc = "none"

\* No Hypercube in the run
InitGraphNone ==
  /\ L_ = 1 /\ ndim_ = 1 /\ pbc_ = TRUE
  /\ sites_ = Empty /\ coord2sites_ = Empty /\ adjlist_ = Empty
  /\ nsites_ = 0 /\ coord = Empty /\ gi = 0 /\ permtable = Empty
  /\ gpc = "none"

\* No Spin in the run
InitSpinNone ==
  /\ S4_ = 2 /\ totalS4_ = 0 /\ constraintSz_ = FALSE
  /\ local_ = Empty /\ nstates_ = 0 /\ nspins_ = 0
  /\ state = Empty /\ hpc = "none"

\* No learning in the run
InitSrNone ==
  /\ totalnodes_ = 1 /\ withpars = TRUE /\ Method = "Sr" /\ DiagShift = {}
  /\ UseIterative = {} /\ RescaleShift = {} /\ niter = 0
  /\ rpc = Empty /\ wait = Empty /\ coll = Empty /\ ri = Empty
  /\ sbuf = Empty /\ bbuf = Empty
  /\ rgen_ = Empty /\ dosr_ = Empty /\ use_iterative_ = Empty
  /\ sr_rescale_shift_ = Empty /\ sr_diag_shift_ = Empty
  /\ Iter0_ = Empty /\ filelog_ = <<>>
  /\ vsamp_ = Empty /\ elocmean_ = Empty /\ Okmean_ = Empty
  /\ grad_ = Empty /\ srb = Empty /\ srS = Empty
  /\ upars = Empty /\ theta = Empty

\* Hypercube(L, ndim, pbc) up to the first call in Init()
InitGraph ==
  /\ L_ \in 1..MaxL
  /\ ndim_ \in 1..MaxDim
  /\ pbc_ \in BOOLEAN
  /\ sites_ = Empty
  /\ coord2sites_ = Empty
  /\ adjlist_ = Empty
  /\ nsites_ = 0
  /\ coord = Const0(ndim_, 0)
  /\ gi = 0
  /\ permtable = Empty
  /\ gpc = "GenerateLatticePoints"
  /\ InitSpinNone
  /\ InitSamplerNone
  /\ InitSrNone

NextGraph ==
  \/ GenerateLatticePoints
  \/ GenerateAdjacencyList
  \/ SymmetryTable

SpecGraph == InitGraph /\ [][NextGraph]_vars

\* Spin(pars) with the members assigned from the input: any spin S (a multiple
\* of 1/4), any number of spins, with or without a TotalSz (a multiple of 1/4)
InitSpin ==
  /\ S4_ \in 0..(2 * MaxTwoS)
  /\ nspins_ \in 1..MaxSpins
  /\ constraintSz_ \in BOOLEAN
  /\ totalS4_ \in IF constraintSz_
                  THEN (-4 * MaxTotalSz)..(4 * MaxTotalSz) ELSE {0}
  /\ local_ = Empty
  /\ nstates_ = 0
  /\ state = Const0(nspins_, 0)
  /\ hpc = "Init"
  /\ InitGraphNone
  /\ InitSamplerNone
  /\ InitSrNone

NextSpin ==
  \/ SpinInit
  \/ RandomVals

SpecSpin == InitSpin /\ [][NextSpin]_vars

\* A periodic chain of L_ sites, a Spin on it, an RbmSpinSymm without visible
\* bias (the lookup tables do not hold it) and with arbitrary
\* parameters and a MetropolisLocal sampler, all constructed:
\* MetropolisLocal::Init has run Seed() and Reset(true).  S is 1/2 or 1 with
\* 2*S*N within MaxSzRange, TotalSz is absent, -1/2 or 0.
InitSampler ==
  /\ L_ \in 1..MaxChain
  /\ ndim_ = 1
  /\ pbc_ = TRUE
  /\ LET g == LatticePoints([sites |-> Empty, c2s |-> Empty, n |-> 0,
                             coord |-> Const0(ndim_, 0), more |-> TRUE])
     IN  /\ sites_ = g.sites
         /\ coord2sites_ = g.c2s
         /\ nsites_ = g.n
         /\ coord = g.coord
  /\ gi = nsites_
  /\ adjlist_ = AdjFrom(Const0(nsites_, <<>>), 0)
  /\ permtable = SymmetryRows
  /\ gpc = "returned"
  /\ S4_ \in {2, 4}
  /\ S2 * L_ <= MaxSzRange
  /\ nspins_ = nsites_
  /\ constraintSz_ \in BOOLEAN
  /\ totalS4_ \in IF constraintSz_ THEN {-2, 0} ELSE {0}
  /\ nstates_ = S2 + 1
  /\ local_ = [i \in 0..S2 |-> -S2 + 2 * i]
  /\ state = Empty
  /\ hpc = "ready"
  /\ permtable_ = permtable
  /\ alpha_ = 1
  /\ usea_ = FALSE
  /\ useb_ = TRUE
  /\ DerMatSymm_ = DerMatSymmOf
  /\ mpc = "set"
  /\ \E pars \in ParVectors :
       LET sy == SymmOf(pars)
           ba == BareOf(sy)
       IN  /\ asymm_ = sy.asymm
           /\ bsymm_ = sy.bsymm
           /\ Wsymm_ = sy.Wsymm
           /\ a_ = ba.a
           /\ b_ = ba.b
           /\ W_ = ba.W
  /\ \E o \in RandomValsOutcomes :
       /\ o.st = "returned"
       /\ v_ = o.v
  /\ lt_ = InitLookup(v_, [VectorSize |-> 0, V0 |-> Empty])
  /\ accept_ = 0
  /\ moves_ = 0
  /\ swi = 0
  /\ spc = "idle"
  /\ InitSrNone

NextSampler ==
  \/ Reset
  \/ Sweep
  \/ Proposal
  \/ SweepReturn
  \/ SetVisible
  \/ SetParameters

SpecSampler == InitSampler /\ [][NextSampler]_vars

\* RbmSpinSymm(alpha, graph, hamiltonian, usea, useb) up to its call of Init,
\* or RbmSpinSymm(graph, hamiltonian, pars) up to the call of Init in
\* from_json: a constructed Hypercube (with a symmetry table when periodic)
\* and a constructed Spin on its sites, alpha_, usea_ and useb_ from the input
\* with room for at most MaxRbmPar numbers in asymm_, bsymm_ and Wsymm_
InitRbm ==
  /\ L_ \in 1..MaxL
  /\ ndim_ \in 1..MaxDim
  /\ pbc_ \in BOOLEAN
  /\ alpha_ \in 1..MaxRbmPar
  /\ 1 + alpha_ + Pow(L_, ndim_) * alpha_ <= MaxRbmPar
  /\ LET g == LatticePoints([sites |-> Empty, c2s |-> Empty, n |-> 0,
                             coord |-> Const0(ndim_, 0), more |-> TRUE])
     IN  /\ sites_ = g.sites
         /\ coord2sites_ = g.c2s
         /\ nsites_ = g.n
         /\ coord = g.coord
  /\ usea_ \in BOOLEAN
  /\ useb_ \in BOOLEAN
  /\ gi = nsites_
  /\ adjlist_ = AdjFrom(Const0(nsites_, <<>>), 0)
  /\ permtable = IF pbc_ THEN SymmetryRows ELSE Empty
  /\ gpc = IF pbc_ THEN "returned" ELSE "ready"
  /\ S4_ \in {2, 4}
  /\ S2 * nsites_ <= MaxSzRange
  /\ nspins_ = nsites_
  /\ constraintSz_ = FALSE
  /\ totalS4_ = 0
  /\ nstates_ = S2 + 1
  /\ local_ = [i \in 0..S2 |-> -S2 + 2 * i]
  /\ state = Empty
  /\ hpc = "ready"
  /\ permtable_ = Empty
  /\ asymm_ = 0 /\ bsymm_ = Empty /\ Wsymm_ = Empty
  /\ a_ = Empty /\ b_ = Empty /\ W_ = Empty
  /\ DerMatSymm_ = Empty
  /\ mpc = "Init"
  /\ v_ = Empty /\ accept_ = 0 /\ moves_ = 0
  /\ lt_ = [VectorSize |-> 0, V0 |-> Empty]
  /\ swi = 0 /\ spc = "none"
  /\ InitSrNone

NextRbm ==
  \/ RbmInit
  \/ RbmSetParameters
  \/ from_json

SpecRbm == InitRbm /\ [][NextRbm]_vars

\* totalnodes_ workers are started on the same input: Method, RescaleShift,
\* UseIterative (read for a Method other than "Gd" only) and NiterOpt of the
\* "Learning" section.  The machine holds
\* the same parameter on every worker and each worker is about to construct
\* its sampler (MetropolisLocal::Init calls Seed).
InitSr ==
  /\ totalnodes_ \in 1..MaxWorkers
  /\ withpars = TRUE
  /\ Method \in {"Gd", "Sr"}
  /\ DiagShift = {}
  /\ UseIterative \in IF Method = "Gd" THEN {{}} ELSE {{TRUE}, {FALSE}}
  /\ RescaleShift \in IF Method = "Gd" THEN {{}} ELSE {{TRUE}, {FALSE}}
  /\ niter \in 0..MaxIter
  /\ rpc = [w \in Workers |-> "Seed"]
  /\ wait = [w \in Workers |-> FALSE]
  /\ coll = [w \in Workers |-> <<>>]
  /\ sbuf = [w \in Workers |-> [prev |-> 0, cur |-> 0]]
  /\ bbuf = [w \in Workers |-> 0]
  /\ ri = [w \in Workers |-> 0]
  /\ rgen_ = [w \in Workers |-> 0]
  /\ dosr_ = [w \in Workers |-> FALSE]
  /\ use_iterative_ = [w \in Workers |-> FALSE]
  /\ sr_rescale_shift_ = [w \in Workers |-> FALSE]
  /\ sr_diag_shift_ = [w \in Workers |-> 0]
  /\ Iter0_ = [w \in Workers |-> 0]
  /\ filelog_ = <<>>
  /\ vsamp_ = [w \in Workers |-> <<>>]
  /\ elocmean_ = [w \in Workers |-> 0]
  /\ Okmean_ = [w \in Workers |-> 0]
  /\ grad_ = [w \in Workers |-> 0]
  /\ srb = [w \in Workers |-> 0]
  /\ srS = [w \in Workers |-> 0]
  /\ upars = [w \in Workers |-> 0]
  /\ \E t \in ThetaVals : theta = [w \in Workers |-> t]
  /\ InitGraphNone
  /\ InitSpinNone
  /\ InitSamplerNone

NextSr ==
  \/ Seed
  \/ SrInit
  \/ Sr
  \/ Run
  \/ Sample
  \/ Gradient
  \/ UpdateParameters
  \/ PrintOutput

SpecSr == InitSr /\ [][NextSr]_vars

\* every worker that can take a step eventually takes one
SpecSrFair == SpecSr /\ WF_vars(NextSr)

\* One worker constructs the learning driver either without configuration
\* (Sr(ham, sampler, opt); its caller then calls Run) or from a
\* configuration whose "Learning" section holds any Method and may hold or
\* lack DiagShift (twice the default when present), RescaleShift and
\* UseIterative
InitSrInput ==
  /\ totalnodes_ = 1
  /\ withpars \in BOOLEAN
  /\ Method \in IF withpars THEN {"Gd", "Sr", "gd"} ELSE {"Sr"}
  /\ DiagShift \in IF withpars THEN {{}, {2 * DefaultDiagShift}} ELSE {{}}
  /\ UseIterative \in IF withpars THEN {{}, {TRUE}, {FALSE}} ELSE {{}}
  /\ RescaleShift \in IF withpars THEN {{}, {TRUE}, {FALSE}} ELSE {{}}
  /\ niter \in 0..MaxIter
  /\ rpc = [w \in Workers |-> "Seed"]
  /\ wait = [w \in Workers |-> FALSE]
  /\ coll = [w \in Workers |-> <<>>]
  /\ sbuf = [w \in Workers |-> [prev |-> 0, cur |-> 0]]
  /\ bbuf = [w \in Workers |-> 0]
  /\ ri = [w \in Workers |-> 0]
  /\ rgen_ = [w \in Workers |-> 0]
  /\ dosr_ = [w \in Workers |-> FALSE]
  /\ use_iterative_ = [w \in Workers |-> FALSE]
  /\ sr_rescale_shift_ = [w \in Workers |-> FALSE]
  /\ sr_diag_shift_ = [w \in Workers |-> 0]
  /\ Iter0_ = [w \in Workers |-> 0]
  /\ filelog_ = <<>>
  /\ vsamp_ = [w \in Workers |-> <<>>]
  /\ elocmean_ = [w \in Workers |-> 0]
  /\ Okmean_ = [w \in Workers |-> 0]
  /\ grad_ = [w \in Workers |-> 0]
  /\ srb = [w \in Workers |-> 0]
  /\ srS = [w \in Workers |-> 0]
  /\ upars = [w \in Workers |-> 0]
  /\ \E t \in ThetaVals : theta = [w \in Workers |-> t]
  /\ InitGraphNone
  /\ InitSpinNone
  /\ InitSamplerNone

SpecSrInput == InitSrInput /\ [][NextSr]_vars

-----------------------------------------------------------------------------
(* Properties *)

RECURSIVE SumTo(_, _)
\* v[0] + ... + v[n-1]
SumTo(v, n) == IF n = 0 THEN 0 ELSE v[n - 1] + SumTo(v, n - 1)

Abs(x) == IF x < 0 THEN -x ELSE x

\* the alphabet of spin S: -2S, -2S+2, ..., 2S
Alphabet == {-S2 + 2 * k : k \in 0..S2}

\* RandomVals has been called on a constructed Spin and has ended
RandomValsEnded ==
  /\ nstates_ > 0
  /\ hpc \in {"returned", "aborted", "crashed", "undefined"}

\* 4*(N/2 + S_z) and 4*(N/2 - S_z), the numbers of up and down spins asked for
Up4 == 2 * nspins_ + totalS4_

Down4 == 2 * nspins_ - totalS4_

\* C6: for S = 1/2 with a TotalSz constraint, RandomVals returns exactly
\* N/2 + S_z entries +1 and N/2 - S_z entries -1 whenever these counts are
\* non-negative integers, and aborts exactly when the counts are not integers.
C6_HalfSpinCounts ==
  (RandomValsEnded /\ S4_ = 2 /\ constraintSz_) =>
     /\ (Up4 % 4 = 0 /\ Up4 >= 0 /\ Down4 >= 0) =>
           /\ hpc = "returned"
           /\ 4 * CountOf(state, 1) = Up4
           /\ 4 * CountOf(state, -1) = Down4
     /\ (hpc = "aborted") <=> (Up4 % 4 # 0)

\* the TotalSz constraint can be met by no configuration of N spins S
Infeasible ==
  \/ Abs(totalS4_) > 2 * S2 * nspins_
  \/ (2 * S2 * nspins_ + totalS4_) % 4 # 0

\* C7: when the TotalSz constraint cannot be met, RandomVals aborts: it does
\* not return, does not write out of bounds, does not draw from an empty list.
C7_InfeasibleAborts ==
  (RandomValsEnded /\ constraintSz_ /\ Infeasible) => hpc = "aborted"

\* C8: every entry of the configuration is in the alphabet once RandomVals
\* has run, in each of its three branches.
C8_AlphabetAfterRandomVals ==
  (nstates_ > 0 /\ hpc \in {"returned", "undefined"}) =>
     \A i \in 0..(nspins_ - 1) : state[i] \in Alphabet

\* C10: with periodic boundaries SymmetryTable returns L^ndim rows, each a
\* bijection of the sites that maps p to the site at sites[i] + sites[p] mod L,
\* row 0 being the identity; without periodic boundaries it aborts and
\* returns no table.
C10_SymmetryTable ==
  /\ (gpc = "returned") =>
        /\ pbc_
        /\ nsites_ = Pow(L_, ndim_)
        /\ DOMAIN permtable = 0..(nsites_ - 1)
        /\ \A i \in 0..(nsites_ - 1) :
              /\ DOMAIN permtable[i] = 0..(nsites_ - 1)
              /\ {permtable[i][p] : p \in 0..(nsites_ - 1)} = 0..(nsites_ - 1)
              /\ \A p \in 0..(nsites_ - 1) : \A d \in 0..(ndim_ - 1) :
                    sites_[permtable[i][p]][d]
                      = (sites_[i][d] + sites_[p][d]) % L_
        /\ \A p \in 0..(nsites_ - 1) : permtable[0][p] = p
  /\ (gpc = "aborted") => (~pbc_ /\ permtable = Empty)
  /\ (gpc \in {"returned", "aborted"} /\ ~pbc_) => gpc = "aborted"

\* a table of a lattice with more than one dimension and several sites
C10_Witness ==
  gpc = "returned" /\ ndim_ >= 2 /\ nsites_ >= 4

\* C1: with a TotalSz constraint, no step of Sweep changes the sum of the
\* entries of the sampler's configuration v, so after any number of sweeps the
\* sum is the one RandomVals produced.
C1_SweepKeepsSum ==
  [][(constraintSz_ /\ spc = "Sweep") => SumTo(v_', nv_) = SumTo(v_, nv_)]_vars

\* C2: whenever a proposal of Sweep is about to read the lookup table, lt.V(0)
\* equals W^T v + b for the sampler's configuration and the machine's
\* parameters.
C2_LookupCoherent ==
  (spc = "Sweep" /\ swi < nv_) => lt_.V0 = Theta(v_)

\* the step is one proposal of Sweep: rejected, it leaves v and the lookup
\* table alone; accepted, it changes v at one site s to a letter l # v[s]
ProposalStep ==
  /\ swi < nv_
  /\ swi' = swi + 1
  /\ moves_' = moves_ + 1
  /\ \/ /\ v_' = v_
        /\ lt_' = lt_
        /\ accept_' = accept_
     \/ /\ accept_' = accept_ + 1
        /\ \E s \in 0..(nv_ - 1) : \E l \in Alphabet :
             /\ l # v_[s]
             /\ v_' = [v_ EXCEPT ![s] = l]

AllDone == \A w \in Workers : rpc[w] = "Done"

\* the positions of a worker from the head of the loop of Run to the call of
\* SetParameters in UpdateParameters
BeforeSetParameters ==
  {"RunLoop", "Sample", "G_elocmean", "G_Okmean", "G_grad",
   "UpdateParameters", "U_SumB", "U_SumS", "U_Iterative", "U_Update"}

\* worker u has called SetParameters in iteration k
HasSetParameters(u, k) ==
  \/ ri[u] > k
  \/ ri[u] = k /\ rpc[u] \in {"U_Barrier", "PrintOutput"}

\* worker w has entered Sample in iteration k
HasEnteredSample(w, k) ==
  /\ ri[w] = k
  /\ rpc[w] \notin {"Seed", "SrInit", "Sr", "Run", "RunLoop", "Sample", "Done"}

\* C3: workers that start from the same parameters hold the same parameters
\* whenever they are in the same iteration and have not yet reached its
\* SetParameters (so when each enters Sample), and no worker has entered
\* Sample of iteration k+1 while another has not called SetParameters in
\* iteration k.
C3_Replication ==
  \A w \in Workers : \A u \in Workers :
    /\ (/\ rpc[w] \in BeforeSetParameters
        /\ rpc[u] \in BeforeSetParameters
        /\ ri[w] = ri[u]) => theta[w] = theta[u]
    /\ \A k \in 0..(MaxIter - 1) :
         HasEnteredSample(w, k + 1) => HasSetParameters(u, k)

\* two workers are in Sample of the second iteration with parameters the
\* first iteration has changed
C3_Witness ==
  /\ totalnodes_ >= 2
  /\ \A w \in Workers : rpc[w] = "G_elocmean" /\ ~wait[w] /\ ri[w] = 1
  /\ grad_[0] # 0

\* the first n collectives of w and of u are the same operations
SamePrefix(w, u) ==
  \A n \in 1..Len(coll[w]) : n <= Len(coll[u]) => coll[w][n] = coll[u][n]

\* C4: the collectives the workers have entered are the same operations in
\* the same order on every worker, whatever totalnodes_, Method,
\* UseIterative and RescaleShift, and the run is never stuck: as long as a
\* worker has not left Run some worker can take a step.
C4_CollectiveOrdering ==
  /\ \A w \in Workers : \A u \in Workers : SamePrefix(w, u)
  /\ (rpc # Empty) => (AllDone \/ ENABLED NextSr)

\* several workers have ended a run with the iterative solver, each after
\* the same collectives
C4_Witness ==
  /\ totalnodes_ >= 2
  /\ AllDone
  /\ niter >= 1
  /\ \A w \in Workers : use_iterative_[w] /\ Len(coll[w]) = Len(coll[0])
  /\ Len(coll[0]) > 2

\* the phase of an iteration a position belongs to
Phase(l) ==
  CASE l \in {"RunLoop"} -> 0
    [] l \in {"Sample"} -> 1
    [] l \in {"G_elocmean", "G_Okmean", "G_grad", "UpdateParameters"} -> 2
    [] l \in {"U_SumB", "U_SumS", "U_Iterative"} -> 3
    [] l \in {"U_Update"} -> 4
    [] l \in {"U_Barrier", "PrintOutput"} -> 5
    [] OTHER -> 6

\* a step of worker w keeps the order of the phases: Sampling (1),
\* GradientEstimation (2), SR (3, with dosr_ only), Update (4), Barrier (5);
\* the next iteration starts (0) from a barrier the worker has left
PhaseStep(w) ==
  LET p == Phase(rpc[w])
      q == Phase(rpc'[w])
  IN  /\ (rpc'[w] # rpc[w]) =>
            /\ (p = 0) => IF ri[w] < niter THEN q = 1 ELSE rpc'[w] = "Done"
            /\ (p = 1) => q = 2
            /\ (p = 2) => \/ q = 2
                          \/ q = 3 /\ dosr_[w]
                          \/ q = 4 /\ ~dosr_[w]
            /\ (p = 3) => (q \in {3, 4} /\ dosr_[w])
            /\ (p = 4) => q \in {4, 5}
            /\ (p = 5) => (q \in {5, 0} /\ (q = 0 => (wait[w] /\ ~wait'[w])))
            /\ (rpc[w] = "Done") => FALSE
      /\ (ri'[w] # ri[w]) =>
            /\ rpc[w] = "PrintOutput"
            /\ rpc'[w] = "RunLoop"
            /\ ri'[w] = ri[w] + 1

\* C5: on every worker the phases of an iteration follow one another in the
\* order Sampling, GradientEstimation, SR (with SR enabled only), Update,
\* Barrier; an iteration starts only from the barrier of the one before; the
\* body of the loop runs for i = 0..niter-1 only, a worker that has left Run
\* has made niter iterations, and every worker leaves Run.
C5_IterationStateMachine ==
  /\ [][\A w \in Workers : PhaseStep(w)]_vars
  /\ [](\A w \in Workers :
          /\ (Phase(rpc[w]) \in 1..5) => ri[w] < niter
          /\ (rpc[w] = "Done") => (ri[w] = niter /\ Iter0_[w] = niter))
  /\ <>AllDone

\* the workers have left Run after two iterations with SR
C5_Witness ==
  /\ totalnodes_ >= 2
  /\ AllDone
  /\ niter = 2
  /\ \A w \in Workers : dosr_[w] /\ ri[w] = 2
  /\ Len(filelog_) = 2

-----------------------------------------------------------------------------
(* Properties of the adjacency lists *)

\* the entries of a std::vector kept as a sequence
ElemsOf(q) == {q[k] : k \in 1..Len(q)}

\* Init() of the Hypercube has returned: the adjacency lists are complete
AdjacencyBuilt == gpc \in {"ready", "returned", "aborted"}

\* C11: for all sites i, j of a constructed Hypercube, j is in
\* AdjacencyList()[i] if and only if i is in AdjacencyList()[j].
C11_AdjacencySymmetric ==
  AdjacencyBuilt =>
     \A i \in 0..(nsites_ - 1) : \A j \in 0..(nsites_ - 1) :
        (j \in ElemsOf(adjlist_[i])) <=> (i \in ElemsOf(adjlist_[j]))

\* an open lattice of two dimensions at least whose corner has two neighbours
C11_Witness ==
  /\ AdjacencyBuilt /\ ~pbc_ /\ ndim_ >= 2 /\ L_ >= 3
  /\ ElemsOf(adjlist_[0]) = {1, L_}
  /\ 0 \in ElemsOf(adjlist_[1]) /\ 0 \in ElemsOf(adjlist_[L_])

\* C19: no site of a constructed Hypercube appears in its own adjacency list
\* and no neighbour appears more than once in the adjacency list of a site.
C19_SimpleAdjacency ==
  AdjacencyBuilt =>
     \A i \in 0..(nsites_ - 1) :
        /\ i \notin ElemsOf(adjlist_[i])
        /\ Cardinality(ElemsOf(adjlist_[i])) = Len(adjlist_[i])

RECURSIVE WalksFrom(_)
\* the pairs <<site, parity>> reached from the pairs R along adjacency entries
WalksFrom(R) ==
  LET step == R \cup UNION {{<<j, 1 - r[2]>> : j \in ElemsOf(adjlist_[r[1]])} :
                               r \in R}
  IN  IF step = R THEN R ELSE WalksFrom(step)

\* the sites can be split in two classes with every adjacency entry joining
\* sites of different classes: no site is reached from itself by a walk of
\* odd length
TwoColourable ==
  \A i \in 0..(nsites_ - 1) : <<i, 1>> \notin WalksFrom({<<i, 0>>})

\* C20: IsBipartite returns true only when the graph given by
\* AdjacencyList() is bipartite.
C20_BipartiteReport ==
  (AdjacencyBuilt /\ IsBipartite) => TwoColourable

-----------------------------------------------------------------------------
(* Properties of the symmetric machine *)

\* SetParameters or from_json has returned
MachineSet == mpc = "set"

\* C12 as stated: after SetParameters and after from_json, for every site i,
\* group element g and channel f: a_i = a_sym, b at hidden index alpha*g + f
\* is b_sym[f], W at (i, alpha*g + f) is W_sym[P[g](i), f], P the symmetry
\* table of the graph.
C12_ExpansionAsStated ==
  MachineSet =>
     \A i \in 0..(Nvisible - 1) : \A g \in 0..(permsize_ - 1) :
     \A f \in 0..(alpha_ - 1) :
        /\ a_[i] = asymm_
        /\ b_[alpha_ * g + f] = bsymm_[f]
        /\ W_[i][alpha_ * g + f] = Wsymm_[permtable[g][i]][f]

\* C12, amended: the hidden unit of group element g and channel f has index
\* G*f + g (the units of a channel are contiguous): a_i = a_sym, b at hidden
\* index G*f + g is b_sym[f], W at (i, G*f + g) is W_sym[P[g](i), f].
C12_Expansion ==
  MachineSet =>
     \A i \in 0..(Nvisible - 1) : \A g \in 0..(permsize_ - 1) :
     \A f \in 0..(alpha_ - 1) :
        /\ a_[i] = asymm_
        /\ b_[permsize_ * f + g] = bsymm_[f]
        /\ W_[i][permsize_ * f + g] = Wsymm_[permtable[g][i]][f]

\* two channels on two sites, with parameters that tell the channels and the
\* sites apart
C12_Witness ==
  /\ MachineSet /\ alpha_ = 2 /\ permsize_ = 2
  /\ bsymm_[0] # bsymm_[1]
  /\ Wsymm_[0][0] # Wsymm_[1][0]
  /\ Wsymm_[0][0] # Wsymm_[0][1]

\* the parameter vector, in GetParameters order, with 1 at k and 0 elsewhere
UnitPars(k) == [x \in 0..(npar_ - 1) |-> IF x = k THEN 1 ELSE 0]

\* the bare parameters ba in the order of BareDerLog: a_ (with usea_), b_
\* (with useb_), then W_ row by row
BareVector(ba) ==
  LET kbare0 == IF usea_ THEN Nvisible ELSE 0
      kbare1 == IF useb_ THEN kbare0 + nh_ ELSE kbare0
  IN  [kbare \in 0..(nbarepar_ - 1) |->
         IF kbare < kbare0 THEN ba.a[kbare]
         ELSE IF kbare < kbare1 THEN ba.b[kbare - kbare0]
         ELSE ba.W[(kbare - kbare1) \div nh_][(kbare - kbare1) % nh_]]

\* SetParameters copies symmetric parameter k into bare parameter kbare
Copies(k, kbare) == BareVector(BareOf(SymmOf(UnitPars(k))))[kbare] = 1

\* C13: DerLog(v) is DerMatSymm_ * BareDerLog(v) where DerMatSymm_ has a 1 at
\* (k, kbare) exactly when SetBareParameters copies symmetric parameter k (in
\* GetParameters order) into bare parameter kbare (in BareDerLog order) and 0
\* elsewhere, for every alpha and every choice of the biases; so the row of
\* b_sym[f] sums the bare hidden-bias derivatives of exactly the hidden units
\* whose bias is b_sym[f].
C13_DerivativeMap ==
  (mpc \in {"ready", "set"}) =>
     \A k \in 0..(npar_ - 1) : \A kbare \in 0..(nbarepar_ - 1) :
        DerMatSymm_[k][kbare] = IF Copies(k, kbare) THEN 1 ELSE 0

\* the configurations of the Hilbert space of the machine
Configurations == [0..(Nvisible - 1) -> {local_[k] : k \in 0..(nstates_ - 1)}]

\* P_g(v): the configuration v seen through row g of the symmetry table
Permuted(g, v) == [i \in 0..(Nvisible - 1) |-> v[permtable[g][i]]]

\* the multiset of the hidden pre-activations W_.transpose()*v+b_
ThetaBag(v) ==
  LET th == Theta(v)
  IN  [x \in {th[j] : j \in 0..(nh_ - 1)} |->
         Cardinality({j \in 0..(nh_ - 1) : th[j] = x})]

\* C14: for a machine built on a periodic Hypercube, every parameter vector,
\* every configuration v and every row g of the symmetry table, P_g(v) has the
\* same visible-bias term, the same multiset of hidden pre-activations and
\* the same LogVal as v.
C14_SymmetryExact ==
  (MachineSet /\ pbc_) =>
     \A v \in Configurations : \A g \in 0..(permsize_ - 1) :
        /\ VisibleTerm(Permuted(g, v)) = VisibleTerm(v)
        /\ ThetaBag(Permuted(g, v)) = ThetaBag(v)
        /\ LogVal(Permuted(g, v)) = LogVal(v)

\* a group of three elements at least, and a translation that changes both
\* the configuration and the vector of pre-activations
C14_Witness ==
  /\ MachineSet /\ pbc_ /\ permsize_ >= 3
  /\ \E v \in Configurations : \E g \in 0..(permsize_ - 1) :
        /\ Permuted(g, v) # v
        /\ Theta(Permuted(g, v)) # Theta(v)

-----------------------------------------------------------------------------
(* Properties of the log *)

\* Iter0_ as it is while rank 0 is inside Run
Iter0InRun == IF rpc[0] = "Done" THEN Iter0_[0] - niter ELSE Iter0_[0]

\* the iterations of Run of which rank 0 has passed the writing of the log
Logged == ri[0] + (IF rpc[0] = "PrintOutput" /\ wait[0] THEN 1 ELSE 0)

\* what a record of the log has to hold
RecordKeys ==
  {"Iteration", "Energy", "EnergyVariance", "Acceptance"} \cup ObsNames

\* C15: every iteration of Run appends exactly one record to the log, written
\* by rank 0 only; each record holds the iteration index (loop index +
\* Iter0_), the energy mean, the energy variance, the sampler acceptance and
\* the value of every configured observable.
C15_LogRecords ==
  (rpc # Empty) =>
     /\ Len(filelog_) = Logged
     /\ \A k \in 1..Len(filelog_) :
           /\ filelog_[k].mynode = 0
           /\ filelog_[k].Iteration = (k - 1) + Iter0InRun
           /\ RecordKeys \subseteq filelog_[k].keys

-----------------------------------------------------------------------------
(* Properties of the choice between gradient descent and SR *)

\* the driver was constructed from a configuration with Method = "Gd"
GdRun == withpars /\ Method = "Gd"

\* the positions of a worker whose driver is constructed
Constructed ==
  {"Run", "RunLoop", "Sample", "G_elocmean", "G_Okmean", "G_grad",
   "UpdateParameters", "U_SumB", "U_SumS", "U_Iterative", "U_Update",
   "U_Barrier", "PrintOutput", "Done"}

\* the positions of UpdateParameters inside if(dosr_)
SrSolve == {"U_SumB", "U_SumS", "U_Iterative"}

\* the members of worker w hold the values of the input, or the defaults
\* 0.01, false and false where the input has none
SrSettings(w) ==
  /\ dosr_[w]
  /\ IF DiagShift = {} THEN sr_diag_shift_[w] = DefaultDiagShift
                       ELSE sr_diag_shift_[w] \in DiagShift
  /\ IF RescaleShift = {} THEN ~sr_rescale_shift_[w]
                          ELSE sr_rescale_shift_[w] \in RescaleShift
  /\ IF UseIterative = {} THEN ~use_iterative_[w]
                          ELSE use_iterative_[w] \in UseIterative

\* worker w enters the call opt_.Update(grad_, pars) with grad_ the solution
\* of the SR system of its branch
SrSolved(w) ==
  \/ /\ rpc[w] = "U_SumS"
     /\ ~use_iterative_[w]
     /\ srS'[w] = SumOnNodes(w) + sr_diag_shift_[w]
     /\ grad_'[w] = SrGradient(w, Solve(srS'[w], srb[w]))
  \/ /\ rpc[w] = "U_Iterative"
     /\ use_iterative_[w]
     /\ grad_'[w] = SrGradient(w, Solve(totalnodes_ * OkOk(w)
                                          + sr_diag_shift_[w], srb[w]))

\* one step of worker w, as C16 allows it
SrChoiceStep(w) ==
  /\ (rpc[w] = "UpdateParameters" /\ rpc'[w] # rpc[w]) =>
        rpc'[w] = IF GdRun THEN "U_Update" ELSE "U_SumB"
  /\ (GdRun /\ rpc[w] \in Constructed /\ rpc[w] # "G_grad") =>
        grad_'[w] = grad_[w]
  /\ (GdRun /\ rpc[w] \in {"UpdateParameters", "U_Update", "U_Barrier"}) =>
        \/ coll'[w] = coll[w]
        \/ coll'[w][Len(coll'[w])] \in {"SendToAll", "MPI_Barrier"}
  /\ (~GdRun /\ rpc[w] # "U_Update" /\ rpc'[w] = "U_Update") => SrSolved(w)

\* C16: SR is skipped exactly when the driver is constructed from a
\* configuration with Method = "Gd": then every iteration gives the optimizer
\* the gradient Gradient() computed, with no SR solve and no SR collective.
\* For every other construction (another Method, or no configuration) the
\* gradient is replaced by the SR solution, with DiagShift defaulting to 0.01,
\* RescaleShift to false and UseIterative to false.
C16_SrExactlyForGd ==
  /\ [](\A w \in Workers :
          (rpc # Empty /\ rpc[w] \in Constructed) =>
             IF GdRun THEN ~dosr_[w] /\ rpc[w] \notin SrSolve
                      ELSE SrSettings(w))
  /\ [][\A w \in Workers : SrChoiceStep(w)]_vars

\* a run of gradient descent that has changed the parameters
C16_Witness ==
  /\ rpc # Empty /\ GdRun /\ niter >= 1
  /\ rpc[0] = "Done" /\ theta[0] \notin ThetaVals

-----------------------------------------------------------------------------
(* Properties of the higher-spin branch of RandomVals *)

\* S*N + TotalSz is a non-negative integer not exceeding 2*S*N
Feasible ==
  /\ LoopBound4 % 4 = 0
  /\ LoopBound4 >= 0
  /\ LoopBound4 <= 4 * S2 * nspins_

\* the number of increments of 2 that lead from all entries -2S to state
IncrementsOf(st) == (SumTo(st, nspins_) + S2 * nspins_) \div 2

\* C17: for S > 1/2 with a feasible TotalSz constraint RandomVals returns
\* after exactly S*N + TotalSz increments of 2, no site is above 2S, and the
\* entries of the configuration sum to 2*TotalSz.
C17_HigherSpinConstrained ==
  (RandomValsEnded /\ constraintSz_ /\ S4_ > 2 /\ Feasible) =>
     /\ hpc = "returned"
     /\ 4 * IncrementsOf(state) = LoopBound4
     /\ \A i \in 0..(nspins_ - 1) : state[i] \in Alphabet
     /\ 2 * SumTo(state, nspins_) = totalS4_

\* a returned configuration with a site that has reached 2S, a site that has
\* not, and more than one increment
C17_Witness ==
  /\ RandomValsEnded /\ constraintSz_ /\ S4_ > 2 /\ Feasible
  /\ hpc = "returned" /\ nspins_ >= 2 /\ LoopBound4 >= 12
  /\ \E i \in 0..(nspins_ - 1) : state[i] = S2
  /\ \E j \in 0..(nspins_ - 1) : state[j] < S2

-----------------------------------------------------------------------------
(* Properties of the acceptance counters *)

\* C18: after Reset and k >= 1 calls of Sweep on N sites moves = k*N (a call
\* of Sweep starts at a multiple of N, makes N proposals and adds one to moves
\* for each) and 0 <= accept <= moves; accept grows by one on an accepted
\* proposal (which changes v) and not on a rejected one, so Acceptance() is in
\* [0, 1]; Reset sets both counters to 0 and, with initrandom = false, leaves
\* v unchanged.
C18_AcceptanceCounters ==
  /\ [](spc \in {"idle", "Sweep"} =>
          /\ 0 <= accept_ /\ accept_ <= moves_
          /\ spc = "idle" => moves_ % nv_ = 0
          /\ spc = "Sweep" => (swi <= nv_ /\ (moves_ - swi) % nv_ = 0)
          /\ Acceptance.den > 0 =>
                (0 <= Acceptance.num /\ Acceptance.num <= Acceptance.den))
  /\ [][/\ (spc = "Sweep" /\ spc' = "Sweep") =>
              /\ moves_' = moves_ + 1
              /\ accept_' = IF v_' # v_ THEN accept_ + 1 ELSE accept_
        /\ (spc = "Sweep" /\ spc' = "idle") =>
              (swi = nv_ /\ moves_' = moves_ /\ accept_' = accept_)
        /\ (spc = "idle" /\ spc' = "Sweep") =>
              (moves_' = moves_ /\ accept_' = accept_)
        /\ (Reset /\ spc' = "idle") => (accept_' = 0 /\ moves_' = 0)
        /\ ResetWith(FALSE) => (v_' = v_ /\ spc' = "idle")]_vars

\* two sweeps after a Reset, with an accepted and a rejected proposal
C18_Witness ==
  /\ spc = "idle" /\ moves_ = 2 * nv_
  /\ 0 < accept_ /\ accept_ < moves_

====
